---- MODULE Spec2Model ----
(***************************************************************************)
(* A model of fig.py: the argument dispatcher main(), the two handlers     *)
(* preview() and generate(), list_fonts() and halp().  One behaviour is    *)
(* one run of the script.  Strings are sequences of one-character strings, *)
(* so that str.endswith and int() are computed, not assumed.               *)
(***************************************************************************)
EXTENDS Integers, Sequences, FiniteSets

VARIABLES
    args,          \* sys.argv[1:]
    pc,            \* where the run is
    calls,         \* the handlers main() has invoked, in order
    in_try,        \* the running preview() was called inside main's try block
    enum,          \* outcome of the font enumeration of main's smart detection
    environ,       \* os.environ as config() has observed it
    font,          \* local `font` of the running handler, after defaulting
    text,          \* local `text` of the running handler, after defaulting
    filename,      \* local `filename` of generate, after defaulting
    figlet_calls,  \* pyfiglet.Figlet(font).renderText(text) calls made
    canvas_calls,  \* Canvas()...render(ascii_art) calls made
    save_calls,    \* image.save(filename) calls made
    files,         \* the files written
    stdout,        \* lines printed to standard output
    stderr,        \* lines printed to standard error
    exit_status    \* the status the process ends with

vars == <<args, pc, calls, in_try, enum, environ, font, text, filename,
          figlet_calls, canvas_calls, save_calls, files, stdout, stderr,
          exit_status>>

----------------------------------------------------------------------------
(* Strings *)

None == <<"None">>        \* Python's None: differs from every string
Unset == <<"Unset">>      \* an environment variable that is not set
Unread == <<"Unread">>    \* an environment variable config() has not read yet

EMPTY == <<>>
kw_help == <<"h","e","l","p">>
kw_dash_h == <<"-","h">>
kw_dashdash_help == <<"-","-","h","e","l","p">>
kw_list == <<"l","i","s","t">>
kw_preview == <<"p","r","e","v","i","e","w">>
kw_generate == <<"g","e","n","e","r","a","t","e">>
PNG_SUFFIX == <<".","p","n","g">>
larry3d == <<"l","a","r","r","y","3","d">>
slant == <<"s","l","a","n","t">>
standard == <<"s","t","a","n","d","a","r","d">>
Hello_World == <<"H","e","l","l","o",","," ","W","o","r","l","d","!">>
figlet_output_png == <<"f","i","g","l","e","t","_","o","u","t","p","u","t",".","p","n","g">>
black == <<"b","l","a","c","k">>
red == <<"r","e","d">>
Hi == <<"H","i">>
Env_Test == <<"E","n","v"," ","T","e","s","t">>
out_png == <<"o",".","p","n","g">>
up_PNG == <<"o",".","P","N","G">>
png_bare == <<"p","n","g">>
s500 == <<"5","0","0">>
s100 == <<"1","0","0">>
s_bad == <<"x">>

DEFAULT_WIDTH == 728
DEFAULT_HEIGHT == 90

\* str.endswith(suffix)
EndsWith(s, suffix) ==
    /\ Len(s) >= Len(suffix)
    /\ SubSeq(s, Len(s) - Len(suffix) + 1, Len(s)) = suffix

\* truthiness of an Optional[str]: None and "" are falsy
Truthy(x) == x # None /\ x # EMPTY

\* a faulty variant of PyOr: the default wins over the value
PyOr_DefaultFirst(x, d) == IF Truthy(d) THEN d ELSE x

\* Python's `x or d`
PyOr(x, d) == IF Truthy(x) THEN x ELSE d

Digits == {"0","1","2","3","4","5","6","7","8","9"}

DigitVal(c) ==
    CASE c = "0" -> 0 [] c = "1" -> 1 [] c = "2" -> 2 [] c = "3" -> 3
      [] c = "4" -> 4 [] c = "5" -> 5 [] c = "6" -> 6 [] c = "7" -> 7
      [] c = "8" -> 8 [] c = "9" -> 9

\* int(s) succeeds: an optional sign and at least one decimal digit
IsIntLiteral(s) ==
    LET body == IF Len(s) > 0 /\ s[1] \in {"-", "+"} THEN Tail(s) ELSE s
    IN  /\ Len(body) > 0
        /\ \A i \in 1..Len(body) : body[i] \in Digits

RECURSIVE DigitsVal(_)
DigitsVal(s) ==
    IF s = <<>> THEN 0
    ELSE 10 * DigitsVal(SubSeq(s, 1, Len(s) - 1)) + DigitVal(s[Len(s)])

\* int(s) for a literal int() accepts
IntCast(s) ==
    IF s[1] = "-" THEN 0 - DigitsVal(Tail(s))
    ELSE IF s[1] = "+" THEN DigitsVal(Tail(s))
    ELSE DigitsVal(s)

----------------------------------------------------------------------------
(* The environment and the external libraries *)

EnvVars == {"FIGLET_FONT", "FIGLET_TEXT", "FONT_COLOR", "CANVAS_WIDTH", "CANVAS_HEIGHT"}

\* pyfiglet.FigletFont.getFonts()
Fonts == {larry3d, slant, standard}

\* the settings of the environment a run is started with
Envs ==
    [FIGLET_FONT : {Unset, EMPTY, standard},
     FIGLET_TEXT : {Unset, EMPTY, Env_Test},
     FONT_COLOR : {Unset, red},
     CANVAS_WIDTH : {Unset, s500, s_bad},
     CANVAS_HEIGHT : {Unset, s100}]

\* decouple's config(name, default=default): the variable when it is set
config(env, name, default) ==
    IF env[name] = Unset THEN default ELSE env[name]

\* config(name, default=n, cast=int) raises ValueError
CastFails(env, name) == env[name] # Unset /\ ~IsIntLiteral(env[name])

\* config(name, default=n, cast=int)
config_int(env, name, default) ==
    IF env[name] = Unset THEN default ELSE IntCast(env[name])

\* the classes `except Exception` catches; SystemExit derives from BaseException
ExceptionSubclasses == {"Exception", "FontNotFound", "ValueError"}

\* a faulty variant of ExceptCatches: a bare `except:` that catches SystemExit too
ExceptCatches_Bare(exc) == TRUE

\* `except Exception` catches exc
ExceptCatches(exc) == exc \in ExceptionSubclasses

----------------------------------------------------------------------------
(* The inputs of a run *)

MaxArgs == 5

\* tokens a command line starts with
HeadTokens ==
    {EMPTY, kw_help, kw_dash_h, kw_dashdash_help, kw_list, kw_preview,
     kw_generate, slant, Hi, out_png, up_PNG, png_bare}

\* tokens that follow the first
TailTokens == {EMPTY, slant, Hi, out_png, up_PNG, kw_preview}

\* the command lines of at most MaxArgs tokens
IsArgSeq(a) ==
    \/ a = <<>>
    \/ \E n \in 1..MaxArgs : \E h \in HeadTokens : \E t \in [1..(n - 1) -> TailTokens] :
        a = <<h>> \o t

----------------------------------------------------------------------------
(* halp() *)

halp ==
    <<"Usage:", "Commands:", "Examples:", "Environment Variables:", "Note:">>

Line(kind, arg) == [kind |-> kind, arg |-> arg]

HelpLine == Line("help", halp)

Call(fn, f, t, n) == [fn |-> fn, font |-> f, text |-> t, filename |-> n]

----------------------------------------------------------------------------
(* main(): the match statement *)

\* a faulty variant of MatchArm: the implicit positional forms are tried before the
\* explicit preview/generate keyword forms
MatchArm_ImplicitFirst(a) ==
    IF a = <<>> \/ a = <<kw_help>> \/ a = <<kw_dash_h>> \/ a = <<kw_dashdash_help>>
        THEN "help"
    ELSE IF a = <<kw_list>> THEN "list"
    ELSE IF Len(a) = 2 /\ EndsWith(a[2], PNG_SUFFIX) THEN "implicit_text_file"
    ELSE IF Len(a) = 3 /\ EndsWith(a[3], PNG_SUFFIX) THEN "implicit_font_text_file"
    ELSE IF Len(a) = 1 /\ EndsWith(a[1], PNG_SUFFIX) THEN "implicit_file"
    ELSE IF a = <<kw_preview>> THEN "preview0"
    ELSE IF Len(a) = 2 /\ a[1] = kw_preview THEN "preview1"
    ELSE IF Len(a) = 3 /\ a[1] = kw_preview THEN "preview2"
    ELSE IF a = <<kw_generate>> THEN "generate0"
    ELSE IF Len(a) = 2 /\ a[1] = kw_generate THEN "generate1"
    ELSE IF Len(a) = 3 /\ a[1] = kw_generate THEN "generate2"
    ELSE IF Len(a) = 4 /\ a[1] = kw_generate THEN "generate3"
    ELSE IF Len(a) = 1 THEN "implicit_font"
    ELSE IF Len(a) = 2 THEN "implicit_font_text"
    ELSE "fallback"

\* a faulty variant of MatchArm: the three-token implicit form has lost its guard
MatchArm_NoGuard(a) ==
    IF a = <<>> \/ a = <<kw_help>> \/ a = <<kw_dash_h>> \/ a = <<kw_dashdash_help>>
        THEN "help"
    ELSE IF a = <<kw_list>> THEN "list"
    ELSE IF a = <<kw_preview>> THEN "preview0"
    ELSE IF Len(a) = 2 /\ a[1] = kw_preview THEN "preview1"
    ELSE IF Len(a) = 3 /\ a[1] = kw_preview THEN "preview2"
    ELSE IF a = <<kw_generate>> THEN "generate0"
    ELSE IF Len(a) = 2 /\ a[1] = kw_generate THEN "generate1"
    ELSE IF Len(a) = 3 /\ a[1] = kw_generate THEN "generate2"
    ELSE IF Len(a) = 4 /\ a[1] = kw_generate THEN "generate3"
    ELSE IF Len(a) = 2 /\ EndsWith(a[2], PNG_SUFFIX) THEN "implicit_text_file"
    ELSE IF Len(a) = 3 THEN "implicit_font_text_file"
    ELSE IF Len(a) = 1 /\ EndsWith(a[1], PNG_SUFFIX) THEN "implicit_file"
    ELSE IF Len(a) = 1 THEN "implicit_font"
    ELSE IF Len(a) = 2 THEN "implicit_font_text"
    ELSE "fallback"

\* the first case of `match args` that matches
MatchArm(a) ==
    IF a = <<>> \/ a = <<kw_help>> \/ a = <<kw_dash_h>> \/ a = <<kw_dashdash_help>>
        THEN "help"
    ELSE IF a = <<kw_list>> THEN "list"
    ELSE IF a = <<kw_preview>> THEN "preview0"
    ELSE IF Len(a) = 2 /\ a[1] = kw_preview THEN "preview1"
    ELSE IF Len(a) = 3 /\ a[1] = kw_preview THEN "preview2"
    ELSE IF a = <<kw_generate>> THEN "generate0"
    ELSE IF Len(a) = 2 /\ a[1] = kw_generate THEN "generate1"
    ELSE IF Len(a) = 3 /\ a[1] = kw_generate THEN "generate2"
    ELSE IF Len(a) = 4 /\ a[1] = kw_generate THEN "generate3"
    ELSE IF Len(a) = 2 /\ EndsWith(a[2], PNG_SUFFIX) THEN "implicit_text_file"
    ELSE IF Len(a) = 3 /\ EndsWith(a[3], PNG_SUFFIX) THEN "implicit_font_text_file"
    ELSE IF Len(a) = 1 /\ EndsWith(a[1], PNG_SUFFIX) THEN "implicit_file"
    ELSE IF Len(a) = 1 THEN "implicit_font"
    ELSE IF Len(a) = 2 THEN "implicit_font_text"
    ELSE "fallback"

PreviewArms == {"preview0", "preview2", "implicit_font", "implicit_font_text"}

GenerateArms ==
    {"generate0", "generate1", "generate2", "generate3",
     "implicit_text_file", "implicit_font_text_file", "implicit_file"}

\* a faulty variant of ArmCall: the implicit `text file.png` form passes its two
\* tokens positionally, so the text lands in `font` and the path in `text`
ArmCall_Positional(arm, a) ==
    CASE arm = "preview0" -> Call("preview", None, None, None)
      [] arm = "preview2" -> Call("preview", a[2], a[3], None)
      [] arm = "generate0" -> Call("generate", None, None, None)
      [] arm = "generate1" -> Call("generate", a[2], None, None)
      [] arm = "generate2" -> Call("generate", a[2], a[3], None)
      [] arm = "generate3" -> Call("generate", a[2], a[3], a[4])
      [] arm = "implicit_text_file" -> Call("generate", a[1], a[2], None)
      [] arm = "implicit_font_text_file" -> Call("generate", a[1], a[2], a[3])
      [] arm = "implicit_file" -> Call("generate", None, None, a[1])
      [] arm = "implicit_font" -> Call("preview", a[1], None, None)
      [] arm = "implicit_font_text" -> Call("preview", a[1], a[2], None)

\* a faulty variant of ArmCall: `generate font` passes its token as the text
ArmCall_FontAsText(arm, a) ==
    CASE arm = "preview0" -> Call("preview", None, None, None)
      [] arm = "preview2" -> Call("preview", a[2], a[3], None)
      [] arm = "generate0" -> Call("generate", None, None, None)
      [] arm = "generate1" -> Call("generate", None, a[2], None)
      [] arm = "generate2" -> Call("generate", a[2], a[3], None)
      [] arm = "generate3" -> Call("generate", a[2], a[3], a[4])
      [] arm = "implicit_text_file" -> Call("generate", None, a[1], a[2])
      [] arm = "implicit_font_text_file" -> Call("generate", a[1], a[2], a[3])
      [] arm = "implicit_file" -> Call("generate", None, None, a[1])
      [] arm = "implicit_font" -> Call("preview", a[1], None, None)
      [] arm = "implicit_font_text" -> Call("preview", a[1], a[2], None)

\* the handler call of the cases that call preview or generate directly
ArmCall(arm, a) ==
    CASE arm = "preview0" -> Call("preview", None, None, None)
      [] arm = "preview2" -> Call("preview", a[2], a[3], None)
      [] arm = "generate0" -> Call("generate", None, None, None)
      [] arm = "generate1" -> Call("generate", a[2], None, None)
      [] arm = "generate2" -> Call("generate", a[2], a[3], None)
      [] arm = "generate3" -> Call("generate", a[2], a[3], a[4])
      [] arm = "implicit_text_file" -> Call("generate", None, a[1], a[2])
      [] arm = "implicit_font_text_file" -> Call("generate", a[1], a[2], a[3])
      [] arm = "implicit_file" -> Call("generate", None, None, a[1])
      [] arm = "implicit_font" -> Call("preview", a[1], None, None)
      [] arm = "implicit_font_text" -> Call("preview", a[1], a[2], None)

\* a faulty variant of SmartCall: a failed enumeration treats the argument as a font
SmartCall_FontOnFailure(arg, outcome) ==
    IF outcome = "ok" /\ arg \notin Fonts
        THEN Call("preview", None, arg, None)
        ELSE Call("preview", arg, None, None)

\* case ["preview", arg]: the preview call the smart detection makes, given
\* how the two getFonts() calls went
SmartCall(arg, outcome) ==
    IF outcome = "ok" /\ arg \in Fonts
        THEN Call("preview", arg, None, None)
        ELSE Call("preview", None, arg, None)

EnumOutcomes == {"ok", "first_raised", "second_raised"}

NoEnv == [v \in EnvVars |-> Unread]

Init ==
    /\ IsArgSeq(args)
    /\ pc = "main"
    /\ calls = <<>>
    /\ in_try = FALSE
    /\ enum = "none"
    /\ environ = NoEnv
    /\ font = None
    /\ text = None
    /\ filename = None
    /\ figlet_calls = <<>>
    /\ canvas_calls = <<>>
    /\ save_calls = <<>>
    /\ files = {}
    /\ stdout = <<>>
    /\ stderr = <<>>
    /\ exit_status = 0

handler_vars ==
    <<environ, font, text, filename, figlet_calls, canvas_calls, save_calls, files>>

\* case [] | ["help"] | ["-h"] | ["--help"]: print(halp())
MainHelp ==
    /\ pc = "main"
    /\ MatchArm(args) = "help"
    /\ calls' = Append(calls, Call("help", None, None, None))
    /\ stdout' = Append(stdout, HelpLine)
    /\ pc' = "done"
    /\ UNCHANGED <<args, in_try, enum, stderr, exit_status, handler_vars>>

\* case ["list"]: list_fonts()
MainList ==
    /\ pc = "main"
    /\ MatchArm(args) = "list"
    /\ calls' = Append(calls, Call("list_fonts", None, None, None))
    /\ pc' = "list_fonts"
    /\ UNCHANGED <<args, in_try, enum, stdout, stderr, exit_status, handler_vars>>

\* case ["preview", arg]: the try block up to the preview call
MainPreviewSmart ==
    /\ pc = "main"
    /\ MatchArm(args) = "preview1"
    /\ \E outcome \in EnumOutcomes :
        /\ enum' = outcome
        /\ calls' = Append(calls, SmartCall(args[2], outcome))
        /\ in_try' = (outcome = "ok")
    /\ pc' = "preview"
    /\ UNCHANGED <<args, stdout, stderr, exit_status, handler_vars>>

\* the cases that call preview(...) directly
MainPreview ==
    /\ pc = "main"
    /\ MatchArm(args) \in PreviewArms
    /\ calls' = Append(calls, ArmCall(MatchArm(args), args))
    /\ pc' = "preview"
    /\ UNCHANGED <<args, in_try, enum, stdout, stderr, exit_status, handler_vars>>

\* the cases that call generate(...)
MainGenerate ==
    /\ pc = "main"
    /\ MatchArm(args) \in GenerateArms
    /\ calls' = Append(calls, ArmCall(MatchArm(args), args))
    /\ pc' = "generate"
    /\ UNCHANGED <<args, in_try, enum, stdout, stderr, exit_status, handler_vars>>

\* case _: the notice and the help text
MainFallback ==
    /\ pc = "main"
    /\ MatchArm(args) = "fallback"
    /\ calls' = Append(calls, Call("fallback", None, None, None))
    /\ stdout' = stdout \o <<Line("unexpected", args), HelpLine>>
    /\ pc' = "done"
    /\ UNCHANGED <<args, in_try, enum, stderr, exit_status, handler_vars>>

----------------------------------------------------------------------------
(* The handlers *)

\* the call main() made last: the parameters of the running handler
ThisCall == calls[Len(calls)]

\* os.environ after config() has read the variables `names` of e
Observe(env, e, names) ==
    [v \in EnvVars |-> IF v \in names /\ env[v] = Unread THEN e[v] ELSE env[v]]

\* how Figlet(font=f).renderText(t) can end: an unknown font raises FontNotFound
RenderOutcomes(f) == IF f \in Fonts THEN {TRUE, FALSE} ELSE {FALSE}

ErrorLine == Line("Error:", <<"exception">>)

TracebackLine == Line("Traceback", <<"exception">>)

\* preview(), lines 71-75: the defaults and the resolution of font and text
PreviewEnter ==
    /\ pc = "preview"
    /\ \E e \in Envs :
        /\ environ' = Observe(environ, e, {"FIGLET_FONT", "FIGLET_TEXT"})
        /\ font' = PyOr(ThisCall.font, config(environ', "FIGLET_FONT", larry3d))
        /\ text' = PyOr(ThisCall.text, config(environ', "FIGLET_TEXT", Hello_World))
    /\ pc' = "preview_render"
    /\ UNCHANGED <<args, calls, in_try, enum, filename, figlet_calls, canvas_calls,
                   save_calls, files, stdout, stderr, exit_status>>

\* preview(), lines 77-83: the render, and sys.exit(1) when it raises; the
\* SystemExit passes through main's try block unless its except clause catches it
PreviewRender ==
    /\ pc = "preview_render"
    /\ \E ok \in RenderOutcomes(font) :
        /\ figlet_calls' = Append(figlet_calls, [font |-> font, text |-> text, ok |-> ok])
        /\ IF ok
             THEN /\ stdout' = Append(stdout, Line("art", <<font, text>>))
                  /\ pc' = "done"
                  /\ UNCHANGED <<stderr, exit_status, calls, in_try>>
             ELSE /\ stderr' = Append(stderr, ErrorLine)
                  /\ stdout' = stdout
                  /\ IF in_try /\ ExceptCatches("SystemExit")
                       THEN /\ calls' = Append(calls, Call("preview", None, args[2], None))
                            /\ in_try' = FALSE
                            /\ pc' = "preview"
                            /\ exit_status' = exit_status
                       ELSE /\ pc' = "done"
                            /\ exit_status' = 1
                            /\ UNCHANGED <<calls, in_try>>
    /\ UNCHANGED <<args, enum, environ, font, text, filename, canvas_calls,
                   save_calls, files>>

\* a faulty variant of ShiftApplies: the check that text and filename are unset is lost
ShiftApplies_AnyArity(f, t, n) == Truthy(f) /\ EndsWith(f, PNG_SUFFIX)

\* generate(), line 97: only a filename was given, in the font position
ShiftApplies(f, t, n) ==
    Truthy(f) /\ EndsWith(f, PNG_SUFFIX) /\ t = None /\ n = None

\* generate(), lines 90-103: the defaults, the int casts, the shift and the
\* resolution of font, text and filename; a failed cast is an uncaught ValueError
GenerateEnter ==
    /\ pc = "generate"
    /\ \E e \in Envs :
        /\ environ' = Observe(environ, e, EnvVars)
        /\ IF CastFails(environ', "CANVAS_WIDTH") \/ CastFails(environ', "CANVAS_HEIGHT")
             THEN /\ stderr' = Append(stderr, TracebackLine)
                  /\ exit_status' = 1
                  /\ pc' = "done"
                  /\ UNCHANGED <<font, text, filename>>
             ELSE LET c == ThisCall
                      shift == ShiftApplies(c.font, c.text, c.filename)
                      f == IF shift THEN None ELSE c.font
                      n == IF shift THEN c.font ELSE c.filename
                  IN  /\ font' = PyOr(f, config(environ', "FIGLET_FONT", larry3d))
                      /\ text' = PyOr(c.text, config(environ', "FIGLET_TEXT", Hello_World))
                      /\ filename' = PyOr(n, figlet_output_png)
                      /\ pc' = "generate_figlet"
                      /\ UNCHANGED <<stderr, exit_status>>
    /\ UNCHANGED <<args, calls, in_try, enum, figlet_calls, canvas_calls,
                   save_calls, files, stdout>>

\* lines 126-128: the diagnostic and sys.exit(1)
ExitOnError ==
    /\ stderr' = Append(stderr, ErrorLine)
    /\ exit_status' = 1
    /\ pc' = "done"

\* generate(), lines 106-107: the figlet render
GenerateFiglet ==
    /\ pc = "generate_figlet"
    /\ \E ok \in RenderOutcomes(font) :
        /\ figlet_calls' = Append(figlet_calls, [font |-> font, text |-> text, ok |-> ok])
        /\ IF ok
             THEN pc' = "generate_canvas" /\ UNCHANGED <<stderr, exit_status>>
             ELSE ExitOnError
    /\ UNCHANGED <<args, calls, in_try, enum, environ, font, text, filename,
                   canvas_calls, save_calls, files, stdout>>

\* generate(), lines 110-121: the canvas and the image render
GenerateCanvas ==
    /\ pc = "generate_canvas"
    /\ \E ok \in BOOLEAN :
        /\ canvas_calls' = Append(canvas_calls,
              [color |-> config(environ, "FONT_COLOR", black),
               width |-> config_int(environ, "CANVAS_WIDTH", DEFAULT_WIDTH),
               height |-> config_int(environ, "CANVAS_HEIGHT", DEFAULT_HEIGHT),
               ok |-> ok])
        /\ IF ok
             THEN pc' = "generate_save" /\ UNCHANGED <<stderr, exit_status>>
             ELSE ExitOnError
    /\ UNCHANGED <<args, calls, in_try, enum, environ, font, text, filename,
                   figlet_calls, save_calls, files, stdout>>

\* a faulty variant of GenerateSave: the confirmation is printed before the save
GenerateSave_PrintFirst ==
    /\ pc = "generate_save"
    /\ \E ok \in BOOLEAN :
        /\ stdout' = Append(stdout, Line("generated", filename))
        /\ save_calls' = Append(save_calls, [filename |-> filename, ok |-> ok])
        /\ IF ok
             THEN /\ files' = files \cup {filename}
                  /\ pc' = "done"
                  /\ UNCHANGED <<stderr, exit_status>>
             ELSE ExitOnError /\ files' = files
    /\ UNCHANGED <<args, calls, in_try, enum, environ, font, text, filename,
                   figlet_calls, canvas_calls>>

\* generate(), lines 122-124: the save, then the confirmation line
GenerateSave ==
    /\ pc = "generate_save"
    /\ \E ok \in BOOLEAN :
        /\ save_calls' = Append(save_calls, [filename |-> filename, ok |-> ok])
        /\ IF ok
             THEN /\ files' = files \cup {filename}
                  /\ stdout' = Append(stdout, Line("generated", filename))
                  /\ pc' = "done"
                  /\ UNCHANGED <<stderr, exit_status>>
             ELSE ExitOnError /\ UNCHANGED <<files, stdout>>
    /\ UNCHANGED <<args, calls, in_try, enum, environ, font, text, filename,
                   figlet_calls, canvas_calls>>

\* list_fonts(): the listing, through the pager when it is long; a failing
\* enumeration is an uncaught exception
ListFonts ==
    /\ pc = "list_fonts"
    /\ \E ok \in BOOLEAN :
        IF ok
          THEN /\ stdout' = Append(stdout,
                    Line(IF 1 + Cardinality(Fonts) > 30 THEN "pager" ELSE "print", Fonts))
               /\ pc' = "done"
               /\ UNCHANGED <<stderr, exit_status>>
          ELSE /\ stderr' = Append(stderr, TracebackLine)
               /\ exit_status' = 1
               /\ pc' = "done"
               /\ stdout' = stdout
    /\ UNCHANGED <<args, calls, in_try, enum, handler_vars>>

Next ==
    \/ MainHelp
    \/ MainList
    \/ MainPreviewSmart
    \/ MainPreview
    \/ MainGenerate
    \/ MainFallback
    \/ PreviewEnter
    \/ PreviewRender
    \/ GenerateEnter
    \/ GenerateFiglet
    \/ GenerateCanvas
    \/ GenerateSave
    \/ ListFonts

Spec == Init /\ [][Next]_vars

----------------------------------------------------------------------------
(* Properties *)

Keywords == {kw_preview, kw_generate}

LastArg == args[Len(args)]

Dispatched == pc # "main"

GenerateSteps == {"generate_figlet", "generate_canvas", "generate_save"}

\* the value of an environment variable, or the built-in default when unset
EnvOr(name, default) ==
    IF environ[name] = Unset THEN default ELSE environ[name]

Printed(kind) == \E i \in DOMAIN stdout : stdout[i].kind = kind

AnyRenderFailed ==
    \/ \E i \in DOMAIN figlet_calls : ~figlet_calls[i].ok
    \/ \E i \in DOMAIN canvas_calls : ~canvas_calls[i].ok
    \/ \E i \in DOMAIN save_calls : ~save_calls[i].ok

\* C1: every run resolves exactly one intent: once main() has dispatched,
\* exactly one of help, list_fonts, preview, generate or the fallback has been
\* invoked, and no handler is ever invoked a second time, also when the render
\* inside preview fails under ["preview", X].
C1_OneHandlerOnce ==
    /\ Len(calls) <= 1
    /\ Dispatched =>
        /\ Len(calls) = 1
        /\ calls[1].fn \in {"help", "list_fonts", "preview", "generate", "fallback"}

C1_Witness ==
    /\ pc = "done"
    /\ Len(args) = 2 /\ args[1] = kw_preview
    /\ enum = "ok"
    /\ Len(figlet_calls) = 1 /\ ~figlet_calls[1].ok
    /\ exit_status = 1
    /\ Len(calls) = 1 /\ calls[1].fn = "preview"

C2_Shape ==
    Len(args) = 4 /\ args[1] = kw_generate /\ EndsWith(args[4], PNG_SUFFIX)

\* C2 as stated: under ["generate", font, text, file.png] the font and text of
\* every figlet render and the path of every save are the three tokens verbatim.
C2_Original ==
    C2_Shape =>
        /\ \A i \in DOMAIN figlet_calls :
            figlet_calls[i].font = args[2] /\ figlet_calls[i].text = args[3]
        /\ \A i \in DOMAIN save_calls : save_calls[i].filename = args[4]

\* C2, amended: under ["generate", font, text, file.png] the path of every save
\* is the fourth token, and the font and the text of every figlet render are
\* the second and third token when that token is not empty; an empty font or
\* text token is replaced by FIGLET_FONT / FIGLET_TEXT or the built-in default.
C2_ExplicitGenerateVerbatim ==
    C2_Shape =>
        /\ \A i \in DOMAIN figlet_calls :
            /\ figlet_calls[i].font =
                 IF args[2] # EMPTY THEN args[2] ELSE EnvOr("FIGLET_FONT", larry3d)
            /\ figlet_calls[i].text =
                 IF args[3] # EMPTY THEN args[3] ELSE EnvOr("FIGLET_TEXT", Hello_World)
        /\ \A i \in DOMAIN save_calls : save_calls[i].filename = args[4]

C2_Witness ==
    /\ C2_Shape
    /\ args[2] = slant /\ args[3] = Hi
    /\ pc = "done"
    /\ Len(figlet_calls) = 1 /\ figlet_calls[1].font = slant /\ figlet_calls[1].text = Hi
    /\ Len(save_calls) = 1 /\ save_calls[1].ok
    /\ files = {args[4]}

C3_Shape == Len(args) = 2 /\ args[1] = kw_preview

C3_FontMode == enum = "ok" /\ args[2] \in Fonts

\* C3: under ["preview", X] preview is called with font = X and text unset when
\* the enumeration succeeds and X is a font, and with text = X and font unset
\* otherwise, also when the enumeration raises, which never propagates; the
\* unset parameter is filled from the environment or the built-in default.
C3_SmartDetection ==
    (C3_Shape /\ Dispatched) =>
        /\ enum \in EnumOutcomes
        /\ calls = <<IF C3_FontMode
                       THEN Call("preview", args[2], None, None)
                       ELSE Call("preview", None, args[2], None)>>
        /\ \A i \in DOMAIN stderr : stderr[i] # TracebackLine
        /\ \A i \in DOMAIN figlet_calls :
            IF C3_FontMode
              THEN /\ figlet_calls[i].font = args[2]
                   /\ figlet_calls[i].text = EnvOr("FIGLET_TEXT", Hello_World)
              ELSE /\ figlet_calls[i].font = EnvOr("FIGLET_FONT", larry3d)
                   /\ args[2] # EMPTY => figlet_calls[i].text = args[2]

C3_Witness ==
    /\ C3_Shape
    /\ args[2] = slant
    /\ enum = "second_raised"
    /\ pc = "done"
    /\ exit_status = 0
    /\ calls = <<Call("preview", None, slant, None)>>
    /\ Len(figlet_calls) = 1 /\ figlet_calls[1].text = slant
    /\ Printed("art")

C4_Shape ==
    /\ Len(args) \in 1..3
    /\ EndsWith(LastArg, PNG_SUFFIX)
    /\ args[1] \notin Keywords

\* C4: a sequence of one to three tokens whose last ends in ".png" and whose
\* first is not the preview/generate keyword calls generate with the last token
\* as the path: alone with font and text unset, after one token with that token
\* as the text, after two with them as font and text; every save goes to it.
C4_ImplicitGenerate ==
    (C4_Shape /\ Dispatched) =>
        /\ calls =
            <<CASE Len(args) = 1 -> Call("generate", None, None, args[1])
                [] Len(args) = 2 -> Call("generate", None, args[1], args[2])
                [] Len(args) = 3 -> Call("generate", args[1], args[2], args[3])>>
        /\ pc \in GenerateSteps => filename = LastArg
        /\ \A i \in DOMAIN save_calls : save_calls[i].filename = LastArg

C4_Witness ==
    /\ C4_Shape
    /\ Len(args) = 2 /\ args[1] = Hi
    /\ pc = "done"
    /\ files = {args[2]}
    /\ Len(figlet_calls) = 1 /\ figlet_calls[1].text = Hi
    /\ Printed("generated")

\* the shapes rules 1 to 11 of the resolver recognise
Recognized(a) ==
    \/ a \in {<<>>, <<kw_help>>, <<kw_dash_h>>, <<kw_dashdash_help>>, <<kw_list>>}
    \/ Len(a) \in 1..3 /\ a[1] = kw_preview
    \/ Len(a) \in 1..4 /\ a[1] = kw_generate
    \/ Len(a) \in 1..2
    \/ Len(a) = 3 /\ EndsWith(a[3], PNG_SUFFIX)

\* C5: a sequence of no recognised shape prints the notice with the arguments
\* and then the help text, calls no handler, renders and saves nothing, writes
\* nothing to standard error and ends with status 0.
C5_Fallback ==
    (~Recognized(args) /\ Dispatched) =>
        /\ pc = "done"
        /\ stdout = <<Line("unexpected", args), HelpLine>>
        /\ calls = <<Call("fallback", None, None, None)>>
        /\ figlet_calls = <<>> /\ canvas_calls = <<>> /\ save_calls = <<>>
        /\ files = {}
        /\ stderr = <<>>
        /\ exit_status = 0

C5_Witness ==
    /\ args = <<slant, Hi, up_PNG>>
    /\ pc = "done"
    /\ stdout = <<Line("unexpected", args), HelpLine>>
    /\ exit_status = 0

\* C6: no rendering call is made twice; once a figlet render, an image render
\* or a save has failed the run is over with one diagnostic on standard error,
\* status 1 and no confirmation; and a printed confirmation means the save to
\* that path succeeded, the file is written and the status is 0.
C6_RenderFailureTerminal ==
    /\ Len(figlet_calls) <= 1 /\ Len(canvas_calls) <= 1 /\ Len(save_calls) <= 1
    /\ AnyRenderFailed =>
        /\ pc = "done"
        /\ exit_status = 1
        /\ stderr = <<ErrorLine>>
        /\ ~Printed("generated")
        /\ files = {}
    /\ Printed("generated") =>
        /\ pc = "done"
        /\ exit_status = 0
        /\ Len(save_calls) = 1 /\ save_calls[1].ok
        /\ stdout = <<Line("generated", save_calls[1].filename)>>
        /\ files = {save_calls[1].filename}

C6_Witness ==
    /\ pc = "done"
    /\ Len(save_calls) = 1 /\ ~save_calls[1].ok
    /\ exit_status = 1
    /\ stderr = <<ErrorLine>>
    /\ stdout = <<>>

\* C7 as stated: whenever a rendering call is about to be made or has been
\* made, font and text are set and non-empty, and in generate so is the path.
C7_ResolvedNonEmpty ==
    /\ pc \in GenerateSteps \cup {"preview_render"} => Truthy(font) /\ Truthy(text)
    /\ pc \in GenerateSteps => Truthy(filename)
    /\ \A i \in DOMAIN figlet_calls :
        Truthy(figlet_calls[i].font) /\ Truthy(figlet_calls[i].text)
    /\ \A i \in DOMAIN save_calls : Truthy(save_calls[i].filename)

\* C8: a sequence of one to three tokens that starts with preview calls preview
\* and never renders an image or saves; one of one to four tokens that starts
\* with generate calls generate; and two tokens, the first no keyword and the
\* second ending in ".png", call generate with text and path, never preview.
C8_Precedence ==
    Dispatched =>
        /\ (Len(args) \in 1..3 /\ args[1] = kw_preview) =>
            /\ Len(calls) = 1 /\ calls[1].fn = "preview"
            /\ canvas_calls = <<>> /\ save_calls = <<>> /\ files = {}
        /\ (Len(args) \in 1..4 /\ args[1] = kw_generate) =>
            /\ Len(calls) = 1 /\ calls[1].fn = "generate"
        /\ (Len(args) = 2 /\ args[1] \notin Keywords /\ EndsWith(args[2], PNG_SUFFIX)) =>
            /\ calls = <<Call("generate", None, args[1], args[2])>>

C8_Witness ==
    /\ args = <<kw_preview, slant, out_png>>
    /\ pc = "done"
    /\ calls = <<Call("preview", slant, out_png, None)>>
    /\ stdout = <<Line("art", <<slant, out_png>>)>>
    /\ files = {}

C9_Shape1 == Len(args) = 2 /\ args[1] = kw_generate

C9_Shape2 == Len(args) = 3 /\ args[1] = kw_generate

\* C9 as stated: ["generate", F] calls generate with font F and nothing else,
\* the text is FIGLET_TEXT or "Hello, World!" and the path "figlet_output.png";
\* ["generate", F, T] calls it with font F and text T and the same path.
C9_Original ==
    Dispatched =>
        /\ C9_Shape1 =>
            /\ calls = <<Call("generate", args[2], None, None)>>
            /\ pc \in GenerateSteps =>
                /\ text = EnvOr("FIGLET_TEXT", Hello_World)
                /\ filename = figlet_output_png
            /\ \A i \in DOMAIN figlet_calls :
                figlet_calls[i].text = EnvOr("FIGLET_TEXT", Hello_World)
            /\ \A i \in DOMAIN save_calls : save_calls[i].filename = figlet_output_png
        /\ C9_Shape2 =>
            /\ calls = <<Call("generate", args[2], args[3], None)>>
            /\ pc \in GenerateSteps => filename = figlet_output_png
            /\ \A i \in DOMAIN save_calls : save_calls[i].filename = figlet_output_png

\* the path ["generate", F] saves to
C9_Path1 == IF EndsWith(args[2], PNG_SUFFIX) THEN args[2] ELSE figlet_output_png

\* the font ["generate", F] renders with
C9_Font1 ==
    IF args[2] = EMPTY \/ EndsWith(args[2], PNG_SUFFIX)
      THEN EnvOr("FIGLET_FONT", larry3d)
      ELSE args[2]

\* C9, amended: as stated, except that under ["generate", F] with F ending in
\* ".png" generate takes F as the path and renders with the font of FIGLET_FONT
\* or "larry3d"; in every other case the path is "figlet_output.png".
C9_GenerateDefaults ==
    Dispatched =>
        /\ C9_Shape1 =>
            /\ calls = <<Call("generate", args[2], None, None)>>
            /\ pc \in GenerateSteps =>
                /\ font = C9_Font1
                /\ text = EnvOr("FIGLET_TEXT", Hello_World)
                /\ filename = C9_Path1
            /\ \A i \in DOMAIN figlet_calls :
                /\ figlet_calls[i].font = C9_Font1
                /\ figlet_calls[i].text = EnvOr("FIGLET_TEXT", Hello_World)
            /\ \A i \in DOMAIN save_calls : save_calls[i].filename = C9_Path1
        /\ C9_Shape2 =>
            /\ calls = <<Call("generate", args[2], args[3], None)>>
            /\ pc \in GenerateSteps => filename = figlet_output_png
            /\ \A i \in DOMAIN save_calls : save_calls[i].filename = figlet_output_png

C9_Witness ==
    /\ C9_Shape1
    /\ args[2] = slant
    /\ pc = "done"
    /\ Len(figlet_calls) = 1 /\ figlet_calls[1].font = slant
    /\ files = {figlet_output_png}
    /\ Printed("generated")

\* the handler call of the run, when it is a call of preview or generate
RenderingCall == Len(calls) >= 1 /\ calls[1].fn \in {"preview", "generate"}

\* what the canvas is configured from: the environment or the defaults
C10_Canvas ==
    \A i \in DOMAIN canvas_calls :
        /\ canvas_calls[i].color = EnvOr("FONT_COLOR", black)
        /\ environ["CANVAS_WIDTH"] = Unset => canvas_calls[i].width = 728
        /\ environ["CANVAS_WIDTH"] = s500 => canvas_calls[i].width = 500
        /\ environ["CANVAS_HEIGHT"] = Unset => canvas_calls[i].height = 90
        /\ environ["CANVAS_HEIGHT"] = s100 => canvas_calls[i].height = 100

\* C10 as stated: every figlet render uses the font and the text the handler
\* was called with when they are given and not empty, else the value of
\* FIGLET_FONT / FIGLET_TEXT when set, else "larry3d" / "Hello, World!"; the
\* canvas is configured from the environment or the defaults alone.
C10_Original ==
    /\ C10_Canvas
    /\ RenderingCall =>
        \A i \in DOMAIN figlet_calls :
            /\ figlet_calls[i].font =
                 IF Truthy(calls[1].font) THEN calls[1].font
                 ELSE EnvOr("FIGLET_FONT", larry3d)
            /\ figlet_calls[i].text =
                 IF Truthy(calls[1].text) THEN calls[1].text
                 ELSE EnvOr("FIGLET_TEXT", Hello_World)

\* generate was called with a font ending in ".png" and nothing else
C10_OnlyPath ==
    /\ calls[1].fn = "generate"
    /\ EndsWith(calls[1].font, PNG_SUFFIX)
    /\ calls[1].text = None
    /\ calls[1].filename = None

\* C10, amended: as stated, except that a font ending in ".png" that generate
\* is called with alone (text and filename unset) is taken as the path, and
\* the font is then the value of FIGLET_FONT when set, else "larry3d".
C10_SourcePrecedence ==
    /\ C10_Canvas
    /\ RenderingCall =>
        \A i \in DOMAIN figlet_calls :
            /\ figlet_calls[i].font =
                 IF Truthy(calls[1].font) /\ ~C10_OnlyPath THEN calls[1].font
                 ELSE EnvOr("FIGLET_FONT", larry3d)
            /\ figlet_calls[i].text =
                 IF Truthy(calls[1].text) THEN calls[1].text
                 ELSE EnvOr("FIGLET_TEXT", Hello_World)

C10_Witness ==
    /\ RenderingCall
    /\ calls[1].font = slant /\ calls[1].text = Hi
    /\ environ["FIGLET_FONT"] = standard /\ environ["FIGLET_TEXT"] = Env_Test
    /\ environ["CANVAS_WIDTH"] = s500
    /\ Len(figlet_calls) = 1
    /\ figlet_calls[1].font = slant /\ figlet_calls[1].text = Hi
    /\ Len(canvas_calls) = 1 /\ canvas_calls[1].width = 500
    /\ pc = "done"

====
